---- MODULE Spec2Model ----
(***************************************************************************)
(* StackFast: the generate-blueprint API route (pages/api/generate-        *)
(* blueprint, kept in src/pages/_app.tsx), the module-level service        *)
(* singletons it shares with the auth route, and the Netlify variant of    *)
(* the same handler (src/unnamed/part_002).                                *)
(*                                                                         *)
(* One server process is modelled.  Module-level variables (db, model,     *)
(* the Firebase app registry) live as long as the process; the handler's   *)
(* locals live for one request.  The handler is an async function: it is   *)
(* cut at its three awaits (session lookup, project analysis, catalog      *)
(* retrieval); what runs between two awaits is one step.  The pipeline     *)
(* steps a request has gone through are recorded in steps.                 *)
(***************************************************************************)
EXTENDS Integers, Sequences, FiniteSets, TLC

VARIABLES
    route,          \* which deployment this process is: the Next.js route or the Netlify function
    envFirebase,    \* FIREBASE_SERVICE_ACCOUNT_KEY decodes to a usable service account
    envGoogle,      \* GOOGLE_API_KEY is set
    apps,           \* getApps().length of firebase-admin (process wide)
    db,             \* generate-blueprint module: let db is assigned
    model,          \* generate-blueprint module: let model is assigned
    authLoaded,     \* the auth route module has been evaluated
    authDb,         \* auth route module: let db is assigned
    pc,             \* where the handler of the current request stands
    req,            \* the current request: method, session cookie, body
    llmPending,     \* model.generateContent was called and has not settled
    analysis,       \* const analysis (line 120)
    allTools,       \* const allTools (line 125)
    selectedTools,  \* let selectedTools (line 129)
    scoredTools,    \* const scoredTools (line 132)
    response,       \* what res.status(..).json(..) sent for the current request
    calls,          \* collaborator calls made by the current request
    steps,          \* pipeline steps of the current request so far, oldest first
    parked,         \* a second invocation of the handler, suspended at an await
    adminLoaded,    \* lib/FireBase/admin.ts has been evaluated
    adminDb,        \* lib/FireBase/admin.ts: let db is assigned
    adapter,        \* auth route module: authOptions.adapter is defined
    authReply,      \* what the auth route last did for a request or a sign-in
    page,           \* HomePage: status of useSession and the useState values
    creator,        \* BlueprintCreator: its useState values while it is mounted
    wire            \* browser requests: the last generate body, fetches in flight

vars == << route, envFirebase, envGoogle, apps, db, model, authLoaded, authDb, pc,
           req, llmPending, analysis, allTools, selectedTools, scoredTools,
           response, calls, steps, parked, adminLoaded, adminDb, adapter,
           authReply, page, creator, wire >>

procVars == << envFirebase, envGoogle, apps, db, model, authLoaded, authDb >>

\* What the generate-blueprint route never touches.
adminVars == << adminLoaded, adminDb >>

authVars == << adapter, authReply >>

\* The browser side (pages/index.tsx).
uiVars == << page, creator, wire >>

(***************************************************************************)
(* Bounds of the model.                                                    *)
(***************************************************************************)
MaxTools == 3       \* documents in the catalog store, all collections together
PairTools == 2      \* documents in the store while two invocations are interleaved
MaxMock == 2        \* entries of the tool search list of the wizard
MaxInFlight == 1    \* browser fetches of one kind in flight at a time
MaxScore == 1       \* scores range over 0..MaxScore

(***************************************************************************)
(* Data.                                                                   *)
(***************************************************************************)
essentialCategories == << "Language Model", "Database", "Deployment Platform" >>

CodeGeneration == "Code Generation"

\* Categories of the ToolProfile enumeration: the four the handler names
\* and one ("Other") standing for every category it never names.
Categories == { "Language Model", "Database", "Deployment Platform",
                CodeGeneration, "Other" }

collectionNames == << "ai_models_and_apis", "coding_tools", "databases",
                      "deployment_platforms" >>

\* A catalog document.  fit stands for the fields (popularity, skills,
\* integrations) the scoring logic reads.
ToolsUpTo(k) == [ id : 1..k, category : Categories, fit : 0..MaxScore ]

RECURSIVE MaxIdOf(_)
MaxIdOf(s) ==
    IF s = << >> THEN 0
    ELSE LET m == MaxIdOf(Tail(s))
         IN  IF Head(s).id > m THEN Head(s).id ELSE m

\* Catalogs of n documents.  Identifiers are only ever compared for equality,
\* so they are numbered in order of first appearance; two documents may carry
\* the same identifier (the store does not make the id field unique).
RECURSIVE CatalogsOfLen(_)
CatalogsOfLen(n) ==
    IF n = 0 THEN { << >> }
    ELSE UNION { { Append(c, t) : t \in ToolsUpTo(MaxIdOf(c) + 1) }
                 : c \in CatalogsOfLen(n - 1) }

Catalogs == UNION { CatalogsOfLen(n) : n \in 0..MaxTools }

Undefined == "undefined"

NoAnalysis == [ kind |-> "none" ]

\* return { features: [], technologies: [], complexity: 'Moderate' }
NeutralAnalysis ==
    [ kind |-> "object", features |-> << >>, technologies |-> << >>,
      complexity |-> "Moderate" ]

NoResponse == [ status |-> 0 ]

\* Nothing called yet: service initialisation, session lookup, analysis
\* function, LLM client and catalog store, with their outcomes.
NoCalls ==
    [ init |-> "none", session |-> "none", analyze |-> 0, llm |-> 0,
      catalog |-> 0, rejected |-> FALSE ]

\* projectIdea as found in the request body: absent, empty or a text.
ProjectIdeas == { Undefined, "", "idea" }

\* if (!projectIdea)
Falsy(v) == v \in { Undefined, "" }

Bodies ==
    [ parses : { TRUE }, projectIdea : ProjectIdeas,
      preferredToolIds : SUBSET (1..MaxTools) ]

\* A body that is not JSON (only the Netlify function parses the body
\* itself and only it looks at the method).
Malformed == [ parses |-> FALSE, projectIdea |-> Undefined, preferredToolIds |-> {} ]

Requests ==
    [ method : { "POST" }, session : { "user", "absent" }, body : Bodies ]
    \cup [ method : { "POST" }, session : { "absent" }, body : { Malformed } ]
    \cup [ method : { "GET" }, session : { "absent" },
           body : { [ parses |-> TRUE, projectIdea |-> Undefined,
                      preferredToolIds |-> {} ] } ]

NoRequest ==
    [ method |-> "none", session |-> "absent",
      body |-> [ parses |-> TRUE, projectIdea |-> Undefined, preferredToolIds |-> {} ] ]

(***************************************************************************)
(* Module-level service initialisation.                                    *)
(***************************************************************************)

\* initializeServices() of the generate-blueprint route.  Its first throw
\* sites (key missing, JSON.parse, project_id) come before initializeApp; the
\* GOOGLE_API_KEY throw comes after initializeApp and db = getFirestore().
initializeServices(a, d, m, envF, envG) ==
    IF a = 0
    THEN IF ~envF
         THEN [ apps |-> a, db |-> d, model |-> m, threw |-> TRUE ]
         ELSE IF ~envG
              THEN [ apps |-> a + 1, db |-> TRUE, model |-> m, threw |-> TRUE ]
              ELSE [ apps |-> a + 1, db |-> TRUE, model |-> TRUE, threw |-> FALSE ]
    ELSE [ apps |-> a, db |-> TRUE, model |-> m, threw |-> FALSE ]

\* initializeServices() of the Netlify function: the same, without the
\* project_id check.
netlifyInitializeServices(a, d, m, envF, envG) ==
    IF a = 0
    THEN IF ~envF
         THEN [ apps |-> a, db |-> d, model |-> m, threw |-> TRUE ]
         ELSE IF ~envG
              THEN [ apps |-> a + 1, db |-> TRUE, model |-> m, threw |-> TRUE ]
              ELSE [ apps |-> a + 1, db |-> TRUE, model |-> TRUE, threw |-> FALSE ]
    ELSE [ apps |-> a, db |-> TRUE, model |-> m, threw |-> FALSE ]

\* initializeFirebase() of the auth route, run once when the module is
\* evaluated.  A failed initialisation returns without assigning db.
initializeFirebase(a, d, envF) ==
    IF a = 0
    THEN IF ~envF
         THEN [ apps |-> a, db |-> d ]
         ELSE [ apps |-> a + 1, db |-> TRUE ]
    ELSE [ apps |-> a, db |-> TRUE ]

\* An initialisation that does not look whether an app exists.
initializeFirebaseAdminUnchecked(a, d, envF) ==
    IF ~envF
    THEN [ apps |-> a, db |-> d, threw |-> TRUE ]
    ELSE [ apps |-> a + 1, db |-> TRUE, threw |-> FALSE ]

\* initializeFirebaseAdmin() of lib/FireBase/admin.ts, run once when the
\* module is evaluated.  A failed initialisation throws.
initializeFirebaseAdmin(a, d, envF) ==
    IF a = 0
    THEN IF ~envF
         THEN [ apps |-> a, db |-> d, threw |-> TRUE ]
         ELSE [ apps |-> a + 1, db |-> TRUE, threw |-> FALSE ]
    ELSE [ apps |-> a, db |-> TRUE, threw |-> FALSE ]

(***************************************************************************)
(* Project analysis: analyzeProjectWithGemini.                             *)
(***************************************************************************)

\* The two markdown fence tokens the handler removes from the text.
FenceJson == "fence-json"

Fence == "fence"

JsonPayloads == { "analysis", "object" }

\* Texts the LLM may answer with: a JSON analysis, a JSON object without the
\* analysis fields, or prose; bare or inside a markdown json fence.
LlmTexts ==
    { << p >> : p \in JsonPayloads \cup { "prose" } }
    \cup { << FenceJson, p, Fence >> : p \in JsonPayloads \cup { "prose" } }

\* How model.generateContent settles.
LlmOutcomes == { [ kind |-> "throws" ] } \cup { [ kind |-> "text", text |-> t ] : t \in LlmTexts }

IsFence(tok) == tok \in { FenceJson, Fence }

\* text.replace(fence-json, '').replace(fence, '').trim()
StripFences(text) == SelectSeq(text, LAMBDA tok : ~IsFence(tok))

\* JSON.parse: throws on anything that is not one JSON value; the value is
\* returned as it is, nothing checks it against GeminiAnalysis.
JsonParse(s) ==
    IF Len(s) = 1 /\ s[1] \in JsonPayloads
    THEN [ ok |-> TRUE,
           value |-> IF s[1] = "analysis"
                     THEN [ kind |-> "object", features |-> << "f1" >>,
                            technologies |-> << "t1" >>, complexity |-> "High" ]
                     ELSE [ kind |-> "object" ] ]
    ELSE [ ok |-> FALSE ]

\* The value analyzeProjectWithGemini resolves to.  clientSet is whether the
\* module variable model was assigned when the call was made: calling
\* generateContent on undefined throws inside the try block.
analyzeProjectWithGemini(clientSet, outcome) ==
    IF ~clientSet \/ outcome.kind = "throws"
    THEN NeutralAnalysis
    ELSE LET parsed == JsonParse(StripFences(outcome.text))
         IN  IF parsed.ok THEN parsed.value ELSE NeutralAnalysis

(***************************************************************************)
(* Catalog retrieval.                                                      *)
(***************************************************************************)

Rejected == "rejected"

\* The four snapshots of a store that holds the documents of cat, split at
\* c1 <= c2 <= c3; a collection in failing rejects its get().
SnapshotsOf(cat, c1, c2, c3, failing) ==
    LET parts == << SubSeq(cat, 1, c1), SubSeq(cat, c1 + 1, c2),
                    SubSeq(cat, c2 + 1, c3), SubSeq(cat, c3 + 1, Len(cat)) >>
    IN  [ i \in 1..Len(collectionNames) |->
            IF i \in failing THEN Rejected ELSE parts[i] ]

\* A join that waits for every read and keeps what was fulfilled.
PromiseAllSettled(results) ==
    [ ok |-> TRUE,
      value |-> [ i \in DOMAIN results |->
                    IF results[i] = Rejected THEN << >> ELSE results[i] ] ]

\* Promise.all: rejects as soon as one member rejects.
PromiseAll(results) ==
    IF \E i \in DOMAIN results : results[i] = Rejected
    THEN [ ok |-> FALSE, value |-> << >> ]
    ELSE [ ok |-> TRUE, value |-> results ]

\* snapshots.flatMap(snapshot => snapshot.docs.map(doc => doc.data()))
RECURSIVE FlatMap(_)
FlatMap(snapshots) ==
    IF snapshots = << >> THEN << >>
    ELSE Head(snapshots) \o FlatMap(Tail(snapshots))

(***************************************************************************)
(* The selection pipeline.                                                 *)
(***************************************************************************)

\* The preferred tools, but only those of a category the completion knows.
PreferredOfKnownCategory(tools, preferred) ==
    SelectSeq(tools, LAMBDA t : t.id \in preferred /\ t.category # "Other")

\* allTools.filter(t => preferredToolIds.includes(t.id))
PreferredOf(tools, preferred) == SelectSeq(tools, LAMBDA t : t.id \in preferred)

\* A remainder from which the preferred tools are not taken out.
RemainingOfEverything(tools, preferred) == tools

\* allTools.filter(t => !preferredToolIds.includes(t.id))
RemainingOf(tools, preferred) == SelectSeq(tools, LAMBDA t : t.id \notin preferred)

\* let score = 0, then the scoring logic, which the source elides ("scoring
\* logic remains the same"): fit is what it adds for the tool, and is 0 for
\* every tool in the source as it stands.
ScoreOf(tool) == tool.fit

\* { ...tool, score }
WithScore(tool) ==
    [ id |-> tool.id, category |-> tool.category, fit |-> tool.fit,
      score |-> ScoreOf(tool) ]

\* An insertion that puts x before the elements of its own score.
RECURSIVE InsertBeforeEquals(_, _)
InsertBeforeEquals(s, x) ==
    IF s = << >> THEN << x >>
    ELSE IF Head(s).score > x.score
         THEN << Head(s) >> \o InsertBeforeEquals(Tail(s), x)
         ELSE << x >> \o s

\* Position at which x enters the sorted list s: behind every element whose
\* score is not lower (Array.prototype.sort is stable).
RECURSIVE InsertByScore(_, _)
InsertByScore(s, x) ==
    IF s = << >> THEN << x >>
    ELSE IF Head(s).score >= x.score
         THEN << Head(s) >> \o InsertByScore(Tail(s), x)
         ELSE << x >> \o s

\* .sort((a, b) => b.score - a.score)
RECURSIVE SortByScore(_)
SortByScore(s) ==
    IF s = << >> THEN << >>
    ELSE InsertByScore(SortByScore(SubSeq(s, 1, Len(s) - 1)), s[Len(s)])

\* remainingTools.map(tool => ({ ...tool, score })).sort(...)
ScoreTools(remaining) ==
    SortByScore([ i \in 1..Len(remaining) |-> WithScore(remaining[i]) ])

HasCategory(sel, category) == \E i \in 1..Len(sel) : sel[i].category = category

HasId(sel, id) == \E i \in 1..Len(sel) : sel[i].id = id

\* A find that falls back to the first tool not yet selected when none of
\* the category is left.
FindBestFitOrAny(sel, scored, category) ==
    LET hits == { i \in 1..Len(scored) :
                    scored[i].category = category /\ ~HasId(sel, scored[i].id) }
        any == { i \in 1..Len(scored) : ~HasId(sel, scored[i].id) }
    IN  IF hits # {} THEN CHOOSE i \in hits : \A j \in hits : i <= j
        ELSE IF any # {} THEN CHOOSE i \in any : \A j \in any : i <= j
        ELSE 0

\* scoredTools.find(t => t.category === category &&
\*                       !selectedTools.some(s => s.id === t.id))
\* as an index into scored, 0 when find returns undefined.
FindBestFit(sel, scored, category) ==
    LET hits == { i \in 1..Len(scored) :
                    scored[i].category = category /\ ~HasId(sel, scored[i].id) }
    IN  IF hits = {} THEN 0
        ELSE CHOOSE i \in hits : \A j \in hits : i <= j

\* A round that does not look whether the category is already there.
BackfillUnconditionally(sel, scored, category) ==
    LET k == FindBestFit(sel, scored, category)
    IN  IF k = 0 THEN sel ELSE Append(sel, scored[k])

\* One round of the completion: if (!selectedTools.some(category)) { find; push }
Backfill(sel, scored, category) ==
    IF HasCategory(sel, category) THEN sel
    ELSE LET k == FindBestFit(sel, scored, category)
         IN  IF k = 0 THEN sel ELSE Append(sel, scored[k])

\* for (const category of essentialCategories) ...
RECURSIVE BackfillAll(_, _, _)
BackfillAll(sel, scored, categories) ==
    IF categories = << >> THEN sel
    ELSE BackfillAll(Backfill(sel, scored, Head(categories)), scored, Tail(categories))

\* The Code Generation pass run before the essential categories.
CompleteStackCodeGenFirst(sel, scored) ==
    BackfillAll(Backfill(sel, scored, CodeGeneration), scored, essentialCategories)

\* The essential categories, then the separate Code Generation pass.
CompleteStack(sel, scored) ==
    Backfill(BackfillAll(sel, scored, essentialCategories), scored, CodeGeneration)

\* A map that returns the item as it is, score included.
StripScoreKeepsIt(t) == t

\* .map(({ score, ...rest }) => rest)
StripScore(t) == [ id |-> t.id, category |-> t.category, fit |-> t.fit ]

\* The deduplication left out.
DedupByIdKeepsAll(items) == items

\* Array.from(new Map(items.map(item => [item.id, item])).values()): a key
\* keeps the position of its first entry and the value of its last one.
DedupById(items) ==
    LET firsts == SelectSeq([ i \in 1..Len(items) |-> i ],
                            LAMBDA i : \A j \in 1..(i - 1) : items[j].id # items[i].id)
        lastOf(i) == CHOOSE k \in 1..Len(items) :
                        /\ items[k].id = items[i].id
                        /\ \A j \in 1..Len(items) : items[j].id = items[i].id => j <= k
    IN  [ n \in 1..Len(firsts) |-> items[lastOf(firsts[n])] ]

FinalStack(sel) ==
    LET unique == DedupById(sel)
    IN  [ n \in 1..Len(unique) |-> StripScore(unique[n]) ]

\* Building the blueprint reads analysis.complexity and calls .join on
\* analysis.features and analysis.technologies: a TypeError unless both are
\* arrays.
BlueprintThrows(a) == "features" \notin DOMAIN a \/ "technologies" \notin DOMAIN a

\* A blueprint that recommends nothing when the analysis was defaulted.
BlueprintWithoutStackOnDefault(a, stack) ==
    [ status |-> 200,
      recommendedStack |-> IF a = NeutralAnalysis THEN << >> ELSE stack,
      complexity |-> a.complexity, features |-> a.features,
      technologies |-> a.technologies ]

Blueprint(a, stack) ==
    [ status |-> 200, recommendedStack |-> stack, complexity |-> a.complexity,
      features |-> a.features, technologies |-> a.technologies ]

ErrorResponse(code, msg) == [ status |-> code, error |-> msg ]

(***************************************************************************)
(* The page (pages/index.tsx): HomePage and the BlueprintCreator wizard.   *)
(***************************************************************************)

\* status of useSession()
Statuses == { "loading", "authenticated", "unauthenticated" }

\* useState<'dashboard' | 'create' | 'result'>
Views == { "dashboard", "create", "result" }

Null == "null"

\* What a 200 of /api/generate-blueprint may parse to: a blueprint, or the
\* JSON value null.
BlueprintResults == { "blueprint", Null }

\* HomePage after its first render: useSession() still loading, the
\* initial useState values.
FreshPage ==
    [ status |-> "loading", view |-> "dashboard", newBlueprintResult |-> Null,
      isLoadingData |-> TRUE, savedBlueprints |-> "empty" ]

\* MOCK_TOOL_PROFILES_FOR_SEARCH, by id.
MOCK_TOOL_PROFILES_FOR_SEARCH == 1..MaxMock

\* The three buttons of step 2.
SkillLevels == { "Beginner", "Moderate", "Expert" }

\* Texts of the textarea of step 1.
IdeaTexts == { "", "idea" }

\* Texts of the search box of step 3: the empty text, or a text described
\* by the entries whose name contains it.
NoSearch == [ empty |-> TRUE, matches |-> MOCK_TOOL_PROFILES_FOR_SEARCH ]

SearchTexts ==
    { NoSearch } \cup [ empty : { FALSE }, matches : SUBSET MOCK_TOOL_PROFILES_FOR_SEARCH ]

\* The useState values of a BlueprintCreator that has just been mounted.
FreshCreator ==
    [ mounted |-> TRUE, step |-> 1, projectIdea |-> "", skillLevel |-> "",
      preferredTools |-> << >>, toolSearch |-> NoSearch, isLoading |-> FALSE,
      error |-> Null ]

\* No BlueprintCreator is mounted.
Unmounted == [ FreshCreator EXCEPT !.mounted = FALSE ]

NoBody == [ kind |-> "none" ]

\* Nothing sent, nothing in flight.  orphaned counts the generate fetches
\* whose BlueprintCreator has been unmounted since, listing the fetches of
\* /api/blueprints.
NoWire == [ sent |-> NoBody, orphaned |-> 0, listing |-> 0 ]

(***************************************************************************)
(* The process.                                                            *)
(***************************************************************************)

\* An invocation of the handler that has not run its first line.
FreshInvocation ==
    [ pc |-> "Idle", req |-> NoRequest, llmPending |-> FALSE, analysis |-> NoAnalysis,
      allTools |-> << >>, selectedTools |-> << >>, scoredTools |-> << >>,
      response |-> NoResponse, calls |-> NoCalls, steps |-> << "Idle" >> ]

\* The auth route has served nothing yet.
NoReply == [ kind |-> "none" ]

Init ==
    /\ route \in { "next", "netlify" }
    /\ envFirebase \in BOOLEAN
    /\ envGoogle \in BOOLEAN
    /\ apps = 0
    /\ db = FALSE
    /\ model = FALSE
    /\ authLoaded = FALSE
    /\ authDb = FALSE
    /\ pc = "Idle"
    /\ req = NoRequest
    /\ llmPending = FALSE
    /\ analysis = NoAnalysis
    /\ allTools = << >>
    /\ selectedTools = << >>
    /\ scoredTools = << >>
    /\ response = NoResponse
    /\ calls = NoCalls
    /\ steps = << "Idle" >>
    /\ parked = FreshInvocation
    /\ adminLoaded = FALSE
    /\ adminDb = FALSE
    /\ adapter = FALSE
    /\ authReply = NoReply
    /\ page = FreshPage
    /\ creator = Unmounted
    /\ wire = NoWire

reqLocals == << req, llmPending, analysis, allTools, selectedTools, scoredTools >>

\* adapter: db ? FirestoreAdapter(db) : undefined
FirestoreAdapterOf(d) == d

\* The auth route module is evaluated (its top level calls
\* initializeFirebase).  Module evaluation is synchronous and touches
\* nothing a running request reads after its first line, so it is placed
\* between requests.
LoadAuthModule ==
    /\ route = "next"
    /\ ~authLoaded
    /\ pc = "Idle"
    /\ LET r == initializeFirebase(apps, authDb, envFirebase)
       IN  /\ apps' = r.apps
           /\ authDb' = r.db
           /\ adapter' = FirestoreAdapterOf(r.db)
    /\ authLoaded' = TRUE
    /\ UNCHANGED << uiVars, route, envFirebase, envGoogle, db, model, pc, reqLocals, response,
                    calls, steps, parked, adminVars, authReply >>

\* handler, lines 105-113: initializeServices, then the session lookup is
\* started.
HandlerEntryFrom(requests) ==
    /\ route = "next"
    /\ pc = "Idle"
    /\ \E r \in requests :
         LET i == initializeServices(apps, db, model, envFirebase, envGoogle)
         IN  /\ r.method = "POST"
             /\ r.body.parses
             /\ req' = r
             /\ apps' = i.apps
             /\ db' = i.db
             /\ model' = i.model
             /\ IF i.threw
                THEN /\ response' = ErrorResponse(500, "Server services failed to initialize.")
                     /\ calls' = [ calls EXCEPT !.init = "threw" ]
                     /\ steps' = Append(steps, "Failed")
                     /\ pc' = "Failed"
                ELSE /\ response' = response
                     /\ calls' = [ calls EXCEPT !.init = "ok", !.session = "pending" ]
                     /\ steps' = steps
                     /\ pc' = "AwaitSession"
    /\ UNCHANGED << uiVars, route, envFirebase, envGoogle, authLoaded, authDb, llmPending,
                    analysis, allTools, selectedTools, scoredTools, parked,
                    adminVars, authVars >>

HandlerEntry == HandlerEntryFrom(Requests)

\* What getServerSession may settle with for a request: the user of its
\* session or null as the request has one or not, or a rejection.
SessionOutcomes(r) == { r.session, "throws" }

\* The gate without the session check.
GateWithoutSession(s, projectIdea) ==
    IF s = "throws" THEN "throw"
    ELSE IF Falsy(projectIdea) THEN "400"
    ELSE "pass"

\* The gate without the projectIdea check.
GateWithoutValidation(s, projectIdea) ==
    IF s = "throws" THEN "throw"
    ELSE IF s = "absent" THEN "401"
    ELSE "pass"

\* handler, lines 113-117, on the settled session lookup s: a rejection is
\* not caught; without a user 401; without a projectIdea 400; else on.
Gate(s, projectIdea) ==
    IF s = "throws" THEN "throw"
    ELSE IF s = "absent" THEN "401"
    ELSE IF Falsy(projectIdea) THEN "400"
    ELSE "pass"

\* handler, lines 113-120: the session lookup settles; past the gate,
\* analyzeProjectWithGemini is called, which calls the LLM client if there
\* is one.
SessionSettled ==
    /\ pc = "AwaitSession"
    /\ \E s \in SessionOutcomes(req) :
         LET g == Gate(s, req.body.projectIdea)
         IN  IF g = "pass"
             THEN /\ response' = response
                  /\ calls' = [ calls EXCEPT !.session = "returned", !.analyze = @ + 1,
                                             !.llm = IF model THEN @ + 1 ELSE @ ]
                  /\ llmPending' = model
                  /\ steps' = Append(steps, "AnalyzingProject")
                  /\ pc' = "AnalyzingProject"
             ELSE /\ response' = IF g = "401" THEN ErrorResponse(401, "Unauthorized.")
                                 ELSE IF g = "400" THEN ErrorResponse(400, "projectIdea is required.")
                                 ELSE response
                  /\ calls' = [ calls EXCEPT !.session = IF g = "throw" THEN "threw" ELSE "returned" ]
                  /\ llmPending' = llmPending
                  /\ steps' = Append(steps, "Failed")
                  /\ pc' = "Failed"
    /\ UNCHANGED << uiVars, route, procVars, req, analysis, allTools, selectedTools, scoredTools,
                    parked, adminVars, authVars >>

\* lines 89-97 and 120-123: the analysis settles (with the LLM's answer, or
\* at once when the client was never assigned) and the four collection
\* reads are issued.
AnalysisSettled ==
    /\ pc = "AnalyzingProject"
    /\ \E o \in LlmOutcomes :
         /\ ~llmPending => o.kind = "throws"
         /\ analysis' = analyzeProjectWithGemini(llmPending, o)
    /\ calls' = [ calls EXCEPT !.catalog = @ + 1 ]
    /\ llmPending' = FALSE
    /\ steps' = Append(steps, "LoadingCatalog")
    /\ pc' = "LoadingCatalog"
    /\ UNCHANGED << uiVars, route, procVars, req, allTools, selectedTools, scoredTools, response,
                    parked, adminVars, authVars >>

\* Which reads may be rejected when the store holds cat: any of them while
\* the store holds at most one document, none otherwise.
Rejections(cat) ==
    IF Len(cat) <= 1 THEN SUBSET (1..Len(collectionNames)) ELSE { {} }

\* The completion run before the split and scoring.
PipelineStepsCompletingFirst == << "Completing", "Scoring", "Deduplicating" >>

\* The steps of lines 129-152, which run without suspension, in the order
\* of the statements: split and score (129-136), complete (138-149),
\* deduplicate (151-152).
PipelineSteps == << "Scoring", "Completing", "Deduplicating" >>

\* lines 123-168: Promise.all settles.  A rejection goes to the catch block
\* (500).  Else the snapshots are flattened into allTools, the pipeline
\* runs, and the blueprint is sent with 200, unless building it throws,
\* which goes to the catch block too.  The first half of the store's
\* documents lies in the first collection, the rest in the last one.
CatalogSettledFrom(catalogs) ==
    /\ pc = "LoadingCatalog"
    /\ \E cat \in catalogs : \E failing \in Rejections(cat) :
         LET c == Len(cat) \div 2
             all == PromiseAll(SnapshotsOf(cat, c, c, c, failing))
         IN  /\ calls' = [ calls EXCEPT !.rejected = (failing # {}) ]
             /\ IF ~all.ok
                THEN /\ UNCHANGED << allTools, selectedTools, scoredTools >>
                     /\ steps' = Append(steps, "Failed")
                     /\ response' = ErrorResponse(500, "An internal server error occurred during blueprint generation.")
                     /\ pc' = "Failed"
                ELSE /\ allTools' = FlatMap(all.value)
                     /\ scoredTools' = ScoreTools(RemainingOf(allTools', req.body.preferredToolIds))
                     /\ selectedTools' = CompleteStack(PreferredOf(allTools', req.body.preferredToolIds),
                                                       scoredTools')
                     /\ IF BlueprintThrows(analysis)
                        THEN /\ steps' = steps \o PipelineSteps \o << "Failed" >>
                             /\ response' = ErrorResponse(500, "An internal server error occurred during blueprint generation.")
                             /\ pc' = "Failed"
                        ELSE /\ steps' = steps \o PipelineSteps \o << "Done" >>
                             /\ response' = Blueprint(analysis, FinalStack(selectedTools'))
                             /\ pc' = "Done"
    /\ UNCHANGED << uiVars, route, procVars, req, llmPending, analysis, parked, adminVars,
                    authVars >>

CatalogSettled == CatalogSettledFrom(Catalogs)

\* exports.handler of the Netlify function, which has no await: 405 unless
\* POST, then initializeServices, JSON.parse of the body, the projectIdea
\* check, and a blueprint with an empty stack; every throw is answered 500.
NetlifyHandler ==
    /\ route = "netlify"
    /\ pc = "Idle"
    /\ \E r \in Requests :
         LET i == netlifyInitializeServices(apps, db, model, envFirebase, envGoogle)
         IN  /\ req' = r
             /\ IF r.method # "POST"
                THEN /\ UNCHANGED << apps, db, model, calls >>
                     /\ response' = ErrorResponse(405, "Method not allowed")
                     /\ pc' = "Failed"
                ELSE /\ apps' = i.apps
                     /\ db' = i.db
                     /\ model' = i.model
                     /\ calls' = [ calls EXCEPT !.init = IF i.threw THEN "threw" ELSE "ok" ]
                     /\ IF i.threw \/ ~r.body.parses
                        THEN /\ response' = ErrorResponse(500, "Internal server error")
                             /\ pc' = "Failed"
                        ELSE IF Falsy(r.body.projectIdea)
                        THEN /\ response' = ErrorResponse(400, "projectIdea is required")
                             /\ pc' = "Failed"
                        ELSE /\ response' = [ status |-> 200, recommendedStack |-> << >> ]
                             /\ pc' = "Done"
    /\ steps' = Append(steps, pc')
    /\ UNCHANGED << uiVars, route, envFirebase, envGoogle, authLoaded, authDb, llmPending,
                    analysis, allTools, selectedTools, scoredTools, parked,
                    adminVars, authVars >>

\* The handler has returned; the next request finds the module-level state
\* as this one left it.
NextRequest ==
    /\ pc \in { "Done", "Failed" }
    /\ pc' = "Idle"
    /\ req' = NoRequest
    /\ llmPending' = FALSE
    /\ analysis' = NoAnalysis
    /\ allTools' = << >>
    /\ selectedTools' = << >>
    /\ scoredTools' = << >>
    /\ response' = NoResponse
    /\ calls' = NoCalls
    /\ steps' = << "Idle" >>
    /\ UNCHANGED << uiVars, route, procVars, parked, adminVars, authVars >>

Next ==
    \/ LoadAuthModule
    \/ HandlerEntry
    \/ SessionSettled
    \/ AnalysisSettled
    \/ CatalogSettled
    \/ NetlifyHandler
    \/ NextRequest

Spec == Init /\ [][Next]_vars

(***************************************************************************)
(* The process seen from its module-level state: the three modules that    *)
(* initialise Firebase, and the auth route.  The catalog store is empty.   *)
(***************************************************************************)

\* lib/FireBase/admin.ts is evaluated (its top level calls
\* initializeFirebaseAdmin).
LoadAdminModule ==
    /\ route = "next"
    /\ ~adminLoaded
    /\ pc = "Idle"
    /\ LET r == initializeFirebaseAdmin(apps, adminDb, envFirebase)
       IN  /\ apps' = r.apps
           /\ adminDb' = r.db
    /\ adminLoaded' = TRUE
    /\ UNCHANGED << uiVars, route, envFirebase, envGoogle, db, model, authLoaded, authDb, pc,
                    reqLocals, response, calls, steps, parked, authVars >>

\* The pre-handler check of the auth route that is left out.
authHandlerUnchecked(d) == [ kind |-> "request", status |-> 200, nextAuth |-> TRUE ]

\* handler of the auth route, lines 88-95: 500 without NextAuth when db is
\* not set, else whatever NextAuth answers.
authHandler(d) ==
    IF ~d
    THEN [ kind |-> "request", status |-> 500, nextAuth |-> FALSE ]
    ELSE [ kind |-> "request", status |-> 200, nextAuth |-> TRUE ]

\* callbacks.signIn, lines 68-75.
signIn(d) == IF ~d THEN FALSE ELSE TRUE

\* A request reaches the auth route.
AuthRequest ==
    /\ route = "next"
    /\ authLoaded
    /\ authReply' = authHandler(authDb)
    /\ UNCHANGED << uiVars, route, procVars, pc, reqLocals, response, calls, steps, parked,
                    adminVars, adapter >>

\* NextAuth runs the signIn callback of authOptions.
SignInCallback ==
    /\ route = "next"
    /\ authLoaded
    /\ authReply' = [ kind |-> "signIn", allowed |-> signIn(authDb) ]
    /\ UNCHANGED << uiVars, route, procVars, pc, reqLocals, response, calls, steps, parked,
                    adminVars, adapter >>

EmptyStore == CatalogsOfLen(0)

ProcessCatalogSettled == CatalogSettledFrom(EmptyStore)

ProcessNext ==
    \/ LoadAuthModule
    \/ LoadAdminModule
    \/ HandlerEntry
    \/ SessionSettled
    \/ AnalysisSettled
    \/ ProcessCatalogSettled
    \/ NetlifyHandler
    \/ NextRequest
    \/ AuthRequest
    \/ SignInCallback

ProcessSpec == Init /\ [][ProcessNext]_vars

(***************************************************************************)
(* Two invocations of the handler in one process.  The handler runs on one *)
(* thread: between two awaits an invocation runs alone, at an await        *)
(* another one may run.  pc, req, ..., steps are the invocation that runs  *)
(* next; parked is the other one.  The store holds at most PairTools       *)
(* documents and keeps its content once one of the two has read it.        *)
(***************************************************************************)

\* The running invocation: the variables of its closure and what it has
\* sent.
Invocation ==
    [ pc |-> pc, req |-> req, llmPending |-> llmPending, analysis |-> analysis,
      allTools |-> allTools, selectedTools |-> selectedTools,
      scoredTools |-> scoredTools, response |-> response, calls |-> calls,
      steps |-> steps ]

\* What an invocation finds when it resumes: its own closure (allTools,
\* selectedTools, scoredTools are declared inside handler, lines 125-132).
Resumed(p, other) == p

\* The other invocation gets to run.
Switch ==
    /\ route = "next"
    /\ LET r == Resumed(parked, Invocation)
       IN  /\ pc' = r.pc
           /\ req' = r.req
           /\ llmPending' = r.llmPending
           /\ analysis' = r.analysis
           /\ allTools' = r.allTools
           /\ selectedTools' = r.selectedTools
           /\ scoredTools' = r.scoredTools
           /\ response' = r.response
           /\ calls' = r.calls
           /\ steps' = r.steps
    /\ parked' = Invocation
    /\ UNCHANGED << uiVars, route, procVars, adminVars, authVars >>

\* Requests of a signed-in user (the 401 is sent before anything that two
\* invocations could share is touched).
PairRequests ==
    { r \in Requests : r.session = "user"
                       /\ r.body.preferredToolIds \subseteq 1..PairTools }

PairCatalogs == UNION { CatalogsOfLen(n) : n \in 0..PairTools }

\* What the store may hold when the running invocation reads it.
StoreContents ==
    IF parked.calls.catalog = 1 /\ parked.pc \in { "Done", "Failed" }
       /\ ~parked.calls.rejected
    THEN { parked.allTools }
    ELSE PairCatalogs

PairHandlerEntry == HandlerEntryFrom(PairRequests)

PairCatalogSettled == CatalogSettledFrom(StoreContents)

\* The Next.js deployment.
PairInit == Init /\ route = "next"

PairNext ==
    \/ LoadAuthModule
    \/ PairHandlerEntry
    \/ SessionSettled
    \/ AnalysisSettled
    \/ PairCatalogSettled
    \/ NextRequest
    \/ Switch

PairSpec == PairInit /\ [][PairNext]_vars

(***************************************************************************)
(* The page in the browser.  Every event handler runs to its end and React *)
(* renders before the next event: the buttons an event can reach are those *)
(* of the last render.                                                     *)
(***************************************************************************)

\* renderContent with the view looked at before the session status.
renderContentViewFirst(p) ==
    IF p.view = "create" THEN "BlueprintCreator"
    ELSE IF p.view = "result" /\ p.newBlueprintResult # Null
         THEN "BlueprintResultDisplay"
    ELSE IF p.status = "loading" THEN "Loading session..."
    ELSE IF p.status = "unauthenticated" THEN "LoginPrompt"
    ELSE "dashboard"

\* renderContent(): what the main element shows.
renderContent(p) ==
    IF p.status = "loading" THEN "Loading session..."
    ELSE IF p.status = "unauthenticated" THEN "LoginPrompt"
    ELSE IF p.view = "create" THEN "BlueprintCreator"
    ELSE IF p.view = "result" /\ p.newBlueprintResult # Null
         THEN "BlueprintResultDisplay"
    ELSE "dashboard"

\* React keeps the state of BlueprintCreator while renderContent returns
\* it, mounts a new one with the initial state when it appears, and drops
\* the state when it disappears.
Reconcile(p, c) ==
    IF renderContent(p) = "BlueprintCreator"
    THEN IF c.mounted THEN c ELSE FreshCreator
    ELSE Unmounted

\* A generate fetch of c is left in flight when c is dropped.
Orphans(p, c) ==
    IF c.mounted /\ c.isLoading /\ renderContent(p) # "BlueprintCreator" THEN 1 ELSE 0

\* The buttons and inputs of the wizard are on screen.
WizardShown == creator.mounted /\ ~creator.isLoading

\* An isNextDisabled that never disables.
isNextDisabledNever(c) == FALSE

\* isNextDisabled: (step === 1 && !projectIdea) || (step === 2 && !skillLevel)
isNextDisabled(c) ==
    \/ c.step = 1 /\ c.projectIdea = ""
    \/ c.step = 2 /\ c.skillLevel = ""

\* skillLevel === 'Beginner' ? 1 : skillLevel === 'Moderate' ? 2 : 3
skillProfile(level) ==
    IF level = "Beginner" THEN 1 ELSE IF level = "Moderate" THEN 2 ELSE 3

\* filteredTools: nothing for the empty text, else the entries that match
\* and are not preferred yet, in the order of the list.
filteredTools(c) ==
    IF c.toolSearch.empty THEN { }
    ELSE { t \in c.toolSearch.matches :
             \A i \in 1..Len(c.preferredTools) : c.preferredTools[i] # t }

\* handleCreationComplete
handleCreationComplete(p, blueprint) ==
    [ p EXCEPT !.newBlueprintResult = blueprint, !.view = "result" ]

\* useSession() reports another status; the effect on [status] runs.
StatusChange ==
    /\ route = "next"
    /\ \E st \in Statuses \ { page.status } :
         /\ st = "authenticated" => wire.listing < MaxInFlight
         /\ LET p == [ page EXCEPT !.status = st,
                                   !.isLoadingData =
                                       IF st = "authenticated" THEN TRUE
                                       ELSE IF st = "unauthenticated" THEN FALSE
                                       ELSE @ ]
            IN  /\ wire.orphaned + Orphans(p, creator) <= MaxInFlight
                /\ page' = p
                /\ creator' = Reconcile(p, creator)
                /\ wire' = [ wire EXCEPT
                               !.listing = IF st = "authenticated" THEN @ + 1 ELSE @,
                               !.orphaned = @ + Orphans(p, creator) ]
    /\ UNCHANGED << route, procVars, pc, reqLocals, response, calls, steps, parked,
                    adminVars, authVars >>

\* fetchBlueprints: the fetch of /api/blueprints settles.
BlueprintsFetched ==
    /\ route = "next"
    /\ wire.listing > 0
    /\ \E ok \in BOOLEAN :
         page' = [ page EXCEPT !.savedBlueprints = IF ok THEN "loaded" ELSE @,
                               !.isLoadingData = FALSE ]
    /\ wire' = [ wire EXCEPT !.listing = @ - 1 ]
    /\ UNCHANGED << creator, route, procVars, pc, reqLocals, response, calls, steps,
                    parked, adminVars, authVars >>

\* The Create New Blueprint button of the dashboard.
CreateNew ==
    /\ route = "next"
    /\ renderContent(page) = "dashboard"
    /\ LET p == [ page EXCEPT !.view = "create" ]
       IN  /\ page' = p
           /\ creator' = Reconcile(p, creator)
    /\ UNCHANGED << wire, route, procVars, pc, reqLocals, response, calls, steps,
                    parked, adminVars, authVars >>

\* onStartOver of the result view.
StartOver ==
    /\ route = "next"
    /\ renderContent(page) = "BlueprintResultDisplay"
    /\ page' = [ page EXCEPT !.view = "dashboard" ]
    /\ UNCHANGED << creator, wire, route, procVars, pc, reqLocals, response, calls,
                    steps, parked, adminVars, authVars >>

\* The textarea of step 1.
EditIdea ==
    /\ route = "next"
    /\ WizardShown /\ creator.step = 1
    /\ \E text \in IdeaTexts : creator' = [ creator EXCEPT !.projectIdea = text ]
    /\ UNCHANGED << page, wire, route, procVars, pc, reqLocals, response, calls,
                    steps, parked, adminVars, authVars >>

\* A level button of step 2.
SelectSkill ==
    /\ route = "next"
    /\ WizardShown /\ creator.step = 2
    /\ \E level \in SkillLevels : creator' = [ creator EXCEPT !.skillLevel = level ]
    /\ UNCHANGED << page, wire, route, procVars, pc, reqLocals, response, calls,
                    steps, parked, adminVars, authVars >>

\* The Next button: rendered while step < 3, dead while isNextDisabled().
handleNextStep ==
    /\ route = "next"
    /\ WizardShown /\ creator.step < 3
    /\ ~isNextDisabled(creator)
    /\ creator' = [ creator EXCEPT !.step = @ + 1 ]
    /\ UNCHANGED << page, wire, route, procVars, pc, reqLocals, response, calls,
                    steps, parked, adminVars, authVars >>

\* The left button: Cancel (onCancel) at step 1, Back (handlePrevStep)
\* after it.
handlePrevStep ==
    /\ route = "next"
    /\ WizardShown
    /\ IF creator.step = 1
       THEN LET p == [ page EXCEPT !.view = "dashboard" ]
            IN  /\ page' = p
                /\ creator' = Reconcile(p, creator)
       ELSE /\ creator' = [ creator EXCEPT !.step = @ - 1 ]
            /\ UNCHANGED page
    /\ UNCHANGED << wire, route, procVars, pc, reqLocals, response, calls, steps,
                    parked, adminVars, authVars >>

\* The search box of step 3.
EditSearch ==
    /\ route = "next"
    /\ WizardShown /\ creator.step = 3
    /\ \E text \in SearchTexts : creator' = [ creator EXCEPT !.toolSearch = text ]
    /\ UNCHANGED << page, wire, route, procVars, pc, reqLocals, response, calls,
                    steps, parked, adminVars, authVars >>

\* addTool, from a click on an entry of the filtered list.
addTool ==
    /\ route = "next"
    /\ WizardShown /\ creator.step = 3
    /\ \E tool \in filteredTools(creator) :
         creator' = [ creator EXCEPT !.preferredTools = Append(@, tool),
                                     !.toolSearch = NoSearch ]
    /\ UNCHANGED << page, wire, route, procVars, pc, reqLocals, response, calls,
                    steps, parked, adminVars, authVars >>

\* removeTool, from the cross of a pill.
removeTool ==
    /\ route = "next"
    /\ WizardShown /\ creator.step = 3
    /\ \E i \in 1..Len(creator.preferredTools) :
         LET toolToRemove == creator.preferredTools[i]
         IN  creator' = [ creator EXCEPT !.preferredTools =
                              SelectSeq(@, LAMBDA tool : tool # toolToRemove) ]
    /\ UNCHANGED << page, wire, route, procVars, pc, reqLocals, response, calls,
                    steps, parked, adminVars, authVars >>

\* handleGenerate up to its await: the request leaves.  level is not part
\* of the body; it records the skillLevel the profile was computed from.
handleGenerate ==
    /\ route = "next"
    /\ WizardShown /\ creator.step = 3
    /\ creator' = [ creator EXCEPT !.isLoading = TRUE, !.error = Null ]
    /\ wire' = [ wire EXCEPT !.sent =
                     [ kind |-> "generate",
                       projectIdea |-> creator.projectIdea,
                       skillProfile |-> skillProfile(creator.skillLevel),
                       preferredToolIds |-> creator.preferredTools,
                       level |-> creator.skillLevel ] ]
    /\ UNCHANGED << page, route, procVars, pc, reqLocals, response, calls, steps,
                    parked, adminVars, authVars >>

\* How the generate fetch settles: a 200 with its parsed body, or anything
\* that ends in the catch.
GenerateOutcomes ==
    { [ ok |-> TRUE, data |-> d ] : d \in BlueprintResults }
    \cup { [ ok |-> FALSE, data |-> Null ] }

\* handleGenerate after its await, the component still mounted.
GenerateSettled ==
    /\ route = "next"
    /\ creator.mounted /\ creator.isLoading
    /\ \E o \in GenerateOutcomes :
         IF o.ok
         THEN LET p == handleCreationComplete(page, o.data)
              IN  /\ page' = p
                  /\ creator' = Reconcile(p, creator)
         ELSE /\ creator' = [ creator EXCEPT !.error = "message", !.isLoading = FALSE ]
              /\ UNCHANGED page
    /\ UNCHANGED << wire, route, procVars, pc, reqLocals, response, calls, steps,
                    parked, adminVars, authVars >>

\* handleGenerate after its await, the component unmounted meanwhile: its
\* setError and setIsLoading reach nothing, onCreationComplete still
\* reaches HomePage.
OrphanSettled ==
    /\ route = "next"
    /\ wire.orphaned > 0
    /\ \E o \in GenerateOutcomes :
         IF o.ok
         THEN LET p == handleCreationComplete(page, o.data)
              IN  /\ page' = p
                  /\ creator' = Reconcile(p, creator)
                  /\ wire' = [ wire EXCEPT !.orphaned = @ - 1 + Orphans(p, creator) ]
         ELSE /\ wire' = [ wire EXCEPT !.orphaned = @ - 1 ]
              /\ UNCHANGED << page, creator >>
    /\ UNCHANGED << route, procVars, pc, reqLocals, response, calls, steps, parked,
                    adminVars, authVars >>

\* The page of a deployment whose server side is left alone.
PageInit == Init /\ route = "next" /\ envFirebase /\ envGoogle

PageNext ==
    \/ StatusChange
    \/ BlueprintsFetched
    \/ CreateNew
    \/ StartOver
    \/ EditIdea
    \/ SelectSkill
    \/ handleNextStep
    \/ handlePrevStep
    \/ EditSearch
    \/ addTool
    \/ removeTool
    \/ handleGenerate
    \/ GenerateSettled
    \/ OrphanSettled

PageSpec == PageInit /\ [][PageNext]_vars

(***************************************************************************)
(* Properties.                                                             *)
(***************************************************************************)

\* The generate-blueprint route has answered 200.
Answered200 == route = "next" /\ pc = "Done" /\ response.status = 200

\* The request of the generate-blueprint route has been through the
\* selection pipeline (whether or not the blueprint could then be built).
PipelineRan == route = "next" /\ pc \in { "Done", "Failed" } /\ calls.catalog = 1
               /\ ~calls.rejected

IdsOf(tools) == { tools[i].id : i \in 1..Len(tools) }

CategoriesOf(tools) == { tools[i].category : i \in 1..Len(tools) }

Preferred == req.body.preferredToolIds

\* C1: the recommendedStack of a 200 response holds no two entries with the
\* same id, whatever the catalog, the preferences and the analysis were.
C1_NoDuplicateIds ==
    Answered200 =>
        \A i, j \in 1..Len(response.recommendedStack) :
            i # j => response.recommendedStack[i].id # response.recommendedStack[j].id

\* C1 witness: a 200 response for a catalog in which two documents share an
\* id and both are preferred, so that the accumulator held the id twice.
C1_Witness ==
    /\ Answered200
    /\ \E i, j \in 1..Len(selectedTools) : i # j /\ selectedTools[i].id = selectedTools[j].id
    /\ Len(response.recommendedStack) < Len(selectedTools)

C3_EssentialCovered ==
    (Answered200 /\ \A n \in 1..Len(essentialCategories) :
                        essentialCategories[n] \in CategoriesOf(allTools)) =>
        \A n \in 1..Len(essentialCategories) :
            essentialCategories[n] \in CategoriesOf(response.recommendedStack)

\* No usable analysis came back: the fallback was taken or the parsed value
\* lacks the analysis fields.
AnalysisFailed == analysis = NeutralAnalysis \/ BlueprintThrows(analysis)

\* C4 as stated: after any analysis failure the handler goes on with the
\* neutral analysis, and answers 200 if the catalog loads.
C4_AnalysisFailureTolerated ==
    (route = "next" /\ pc \in { "LoadingCatalog", "Done", "Failed" }
       /\ calls.analyze = 1 /\ AnalysisFailed) =>
        /\ analysis = NeutralAnalysis
        /\ (pc # "LoadingCatalog" /\ ~calls.rejected) =>
               /\ response.status = 200
               /\ response.features = << >>
               /\ response.technologies = << >>
               /\ response.complexity = "Moderate"

\* C5 as stated: a request without a session is answered 401 and no
\* collaborator is called for it.
C5_NoSessionAlways401 ==
    (route = "next" /\ pc \in { "Done", "Failed" } /\ req.session = "absent") =>
        /\ response.status = 401
        /\ calls.analyze = 0 /\ calls.llm = 0 /\ calls.catalog = 0

\* C5 amended: for a request without a session neither the analysis service
\* nor the catalog store is ever called and the answer is never 200; when
\* initializeServices threw, the 500 of lines 108-111 is sent before the
\* session is looked up; when the lookup returned, the answer is 401.
C5_NoSessionRejected ==
    (route = "next" /\ req.session = "absent") =>
        /\ calls.analyze = 0 /\ calls.llm = 0 /\ calls.catalog = 0
        /\ pc \notin { "AnalyzingProject", "LoadingCatalog", "Done" }
        /\ response.status \in { 0, 401, 500 }
        /\ calls.init = "threw" => (response.status = 500 /\ calls.session = "none")
        /\ calls.session = "returned" => response.status = 401
        /\ response.status = 401 => (calls.init = "ok" /\ calls.session = "returned")

\* C5 witness: a request without a session was answered 401.
C5_Witness ==
    /\ route = "next" /\ pc = "Failed" /\ req.method = "POST" /\ req.session = "absent"
    /\ req.body.projectIdea = "idea"
    /\ response.status = 401

NoIdea == req.method # "none" /\ req.body.parses /\ Falsy(req.body.projectIdea)

\* C6 as stated: a request without projectIdea is answered 400 at once,
\* before any collaborator is called and without side effects.
C6_NoIdeaAlways400 ==
    (pc \in { "Done", "Failed" } /\ NoIdea) =>
        /\ response.status = 400
        /\ calls.session = "none" /\ calls.analyze = 0 /\ calls.catalog = 0

\* C6 amended: for a request without projectIdea neither the analysis
\* service nor the catalog store is ever called and the answer is never
\* 200; the answer is 400 once service initialisation has succeeded and, in
\* the Next.js route, the session lookup has returned a user (in the
\* Netlify function: the method is POST); before that come the 500 of a
\* failed initialisation, the 401 of a missing session, the 405.
C6_NoIdeaRejected ==
    NoIdea =>
        /\ calls.analyze = 0 /\ calls.llm = 0 /\ calls.catalog = 0
        /\ pc \notin { "AnalyzingProject", "LoadingCatalog", "Done" }
        /\ response.status \in { 0, 400, 401, 405, 500 }
        /\ (route = "next" /\ calls.session = "returned" /\ req.session = "user")
               => response.status = 400
        /\ (route = "netlify" /\ pc = "Failed" /\ req.method = "POST" /\ calls.init = "ok")
               => response.status = 400
        /\ response.status = 400 => calls.init = "ok"

\* C6 witness: the Next.js route answered 400 to an empty projectIdea.
C6_Witness ==
    /\ route = "next" /\ pc = "Failed" /\ req.body.projectIdea = ""
    /\ req.session = "user" /\ response.status = 400

\* C7: when a collection read is rejected the request ends with the 500 of
\* the catch block; nothing of the catalog is kept and no stack is sent.
C7_CatalogFailureAborts ==
    (route = "next" /\ calls.rejected) =>
        /\ pc = "Failed"
        /\ response = ErrorResponse(500, "An internal server error occurred during blueprint generation.")
        /\ allTools = << >> /\ selectedTools = << >> /\ scoredTools = << >>

\* C7 witness: a request for which a read was rejected has ended.
C7_Witness ==
    /\ route = "next" /\ calls.rejected /\ calls.catalog = 1 /\ pc = "Failed"
    /\ ~AnalysisFailed

\* The categories the completion backfills, in the order it does.
BackfillOrder == essentialCategories \o << CodeGeneration >>

Rank(category) == CHOOSE n \in 1..Len(BackfillOrder) : BackfillOrder[n] = category

PreferredTools == PreferredOf(allTools, Preferred)

Remainder == RemainingOf(allTools, Preferred)

\* What the completion appended to the preferred tools.
Added == SubSeq(selectedTools, Len(PreferredTools) + 1, Len(selectedTools))

AddedOf(category) == { k \in 1..Len(Added) : Added[k].category = category }

\* Ids in the accumulator when the completion comes to category.
IdsBefore(category) ==
    IdsOf(PreferredTools)
    \cup { Added[k].id : k \in { n \in 1..Len(Added) :
                                   Rank(Added[n].category) < Rank(category) } }

Candidates(category) == { i \in 1..Len(Remainder) : Remainder[i].category = category }

Eligible(category) ==
    { i \in Candidates(category) : Remainder[i].id \notin IdsBefore(category) }

\* The highest score in S, the earliest in catalog order among equals.
Best(S) ==
    CHOOSE b \in S :
        \A j \in S : \/ ScoreOf(Remainder[j]) < ScoreOf(Remainder[b])
                     \/ ScoreOf(Remainder[j]) = ScoreOf(Remainder[b]) /\ b <= j

\* C8 as stated: for a backfilled category without a preferred tool, the
\* one tool added is the highest-scoring non-preferred catalog tool of the
\* category, the earliest in catalog order among equals.
C8_BestOfCategory ==
    PipelineRan =>
        \A n \in 1..Len(BackfillOrder) :
            LET c == BackfillOrder[n]
            IN  (~HasCategory(PreferredTools, c) /\ Candidates(c) # {}) =>
                    /\ Cardinality(AddedOf(c)) = 1
                    /\ \A k \in AddedOf(c) :
                         StripScore(Added[k]) = Remainder[Best(Candidates(c))]

\* C8 amended: the tool added is the highest-scoring one among the
\* non-preferred tools of the category whose id is not yet in the
\* accumulator, the earliest in catalog order among equals; exactly one is
\* added when there is such a tool and none otherwise, and the 200 stack
\* then holds exactly one tool of the category.
C8_BestEligibleOfCategory ==
    PipelineRan =>
        \A n \in 1..Len(BackfillOrder) :
            LET c == BackfillOrder[n]
            IN  ~HasCategory(PreferredTools, c) =>
                    IF Eligible(c) = {}
                    THEN AddedOf(c) = {}
                    ELSE /\ Cardinality(AddedOf(c)) = 1
                         /\ \A k \in AddedOf(c) :
                              /\ StripScore(Added[k]) = Remainder[Best(Eligible(c))]
                              /\ Added[k].score = ScoreOf(Remainder[Best(Eligible(c))])
                         /\ Answered200 =>
                              Cardinality({ k \in 1..Len(response.recommendedStack) :
                                              response.recommendedStack[k].category = c }) = 1

\* C8 witness: no preferences, and a category with two candidates of which
\* the later one in the catalog scores higher and is the one in the stack.
C8_Witness ==
    /\ Answered200 /\ Preferred = {}
    /\ \E i, j \in 1..Len(allTools) :
         /\ i < j
         /\ allTools[i].category = "Language Model" /\ allTools[j].category = "Language Model"
         /\ allTools[i].id # allTools[j].id
         /\ allTools[i].fit < allTools[j].fit
         /\ \E k \in 1..Len(response.recommendedStack) : response.recommendedStack[k] = allTools[j]
    /\ Cardinality({ k \in 1..Len(response.recommendedStack) :
                       response.recommendedStack[k].category = "Language Model" }) = 1

PipelineOrder ==
    << "Idle", "AnalyzingProject", "LoadingCatalog", "Scoring", "Completing",
       "Deduplicating", "Done" >>

IsPrefix(a, b) == Len(a) <= Len(b) /\ a = SubSeq(b, 1, Len(a))

\* C10: the steps of a request are an initial part of the pipeline order,
\* none skipped or repeated, possibly ended by Failed from any step but
\* Done; nothing follows Done or Failed; the handler stands at the last
\* step recorded; and scoring is only reached with the analysis settled
\* and all four reads fulfilled.
C10_StepsInOrder ==
    route = "next" =>
        /\ \/ IsPrefix(steps, PipelineOrder)
           \/ /\ steps[Len(steps)] = "Failed"
              /\ IsPrefix(SubSeq(steps, 1, Len(steps) - 1),
                          SubSeq(PipelineOrder, 1, Len(PipelineOrder) - 1))
        /\ steps[Len(steps)] = (IF pc = "AwaitSession" THEN "Idle" ELSE pc)
        /\ (\E n \in 1..Len(steps) : steps[n] = "Scoring") =>
               /\ analysis # NoAnalysis /\ ~llmPending
               /\ calls.analyze = 1 /\ calls.catalog = 1 /\ ~calls.rejected

\* C10 witness: a request has gone through every step to Done.
C10_Witness == route = "next" /\ steps = PipelineOrder /\ pc = "Done"

Finished == route = "next" /\ pc \in { "Done", "Failed" }

InSteps(step) == \E n \in 1..Len(steps) : steps[n] = step

\* C11 as stated: a finished request has been given exactly one response;
\* a failure has one of the shapes 400, 401, 500 with an error string; no
\* collaborator was called twice; and a 200 carries the stack that came out
\* of the completion and the deduplication.
C11_OneResponsePerRequest ==
    Finished =>
        /\ response.status \in { 200, 400, 401, 500 }
        /\ response.status # 200 => DOMAIN response = { "status", "error" }
        /\ calls.analyze <= 1 /\ calls.llm <= 1 /\ calls.catalog <= 1
        /\ response.status = 200 =>
               /\ InSteps("Completing") /\ InSteps("Deduplicating")
               /\ response.recommendedStack = FinalStack(selectedTools)

\* Indices of the first entries of their id.
FirstIndices(items) ==
    { i \in 1..Len(items) : \A j \in 1..(i - 1) : items[j].id # items[i].id }

\* Index of the last entry that has the id of entry i.
LastIndexOfId(items, i) ==
    CHOOSE k \in 1..Len(items) :
        /\ items[k].id = items[i].id
        /\ \A j \in (k + 1)..Len(items) : items[j].id # items[i].id

\* Position of index i among the indices S.
PositionIn(S, i) == Cardinality({ j \in S : j <= i })

\* C13: the recommendedStack of a 200 response is the accumulator (the
\* preferred tools followed by the backfilled ones) with one entry for each
\* id, in the order in which the ids first occur; the entry of an id is the
\* accumulator's last entry of that id, and no entry has a score field.
C13_DedupOutput ==
    Answered200 =>
        LET items == selectedTools
            stack == response.recommendedStack
        IN  /\ items = PreferredOf(allTools, Preferred)
                         \o SubSeq(items, Len(PreferredOf(allTools, Preferred)) + 1, Len(items))
            /\ Len(stack) = Cardinality(FirstIndices(items))
            /\ \A i \in FirstIndices(items) :
                 LET e == items[LastIndexOfId(items, i)]
                 IN  stack[PositionIn(FirstIndices(items), i)]
                         = [ id |-> items[i].id, category |-> e.category, fit |-> e.fit ]

\* C13 witness: the accumulator held an id twice and a scored, backfilled
\* tool behind it.
C13_Witness ==
    /\ Answered200
    /\ Len(selectedTools) = 3
    /\ selectedTools[1].id = selectedTools[2].id
    /\ selectedTools[1] # selectedTools[2]
    /\ "score" \in DOMAIN selectedTools[3]
    /\ Len(response.recommendedStack) = 2

PreferredIndices == { i \in 1..Len(allTools) : allTools[i].id \in Preferred }

RemainingIndices == { i \in 1..Len(allTools) : allTools[i].id \notin Preferred }

\* The entries of tools at the indices S, in the order of tools.
PickAt(tools, S) ==
    [ k \in 1..Cardinality(S) |-> tools[CHOOSE i \in S : PositionIn(S, i) = k] ]

\* C14: the accumulator starts with exactly the catalog tools whose id is
\* preferred, in catalog order and not scored; the scored list holds exactly
\* the others, and those of one score stand in catalog order; together they
\* are the whole catalog.
C14_SplitIsPartition ==
    PipelineRan =>
        /\ Len(selectedTools) >= Cardinality(PreferredIndices)
        /\ SubSeq(selectedTools, 1, Cardinality(PreferredIndices))
               = PickAt(allTools, PreferredIndices)
        /\ Len(scoredTools) = Cardinality(RemainingIndices)
        /\ Cardinality(PreferredIndices) + Len(scoredTools) = Len(allTools)
        /\ \A v \in 0..MaxScore :
             LET ofScore == SelectSeq(scoredTools, LAMBDA t : t.score = v)
                 S == { i \in RemainingIndices : ScoreOf(allTools[i]) = v }
             IN  [ k \in 1..Len(ofScore) |-> StripScore(ofScore[k]) ] = PickAt(allTools, S)

\* C14 witness: a preferred tool stands behind a tool that is not preferred
\* and before another preferred one, with the highest id preferred first.
C14_Witness ==
    /\ PipelineRan
    /\ Len(allTools) = 3
    /\ Preferred = { 2, 3 }
    /\ allTools[1].id = 1 /\ allTools[2].id = 2 /\ allTools[3].id = 3
    /\ Len(scoredTools) = 1

\* C16: when the remainder holds no tool of a backfilled category that has
\* no preferred tool either, nothing is added for the category and the
\* stack holds no tool of it; the request ends as it would without the gap
\* (200 whenever the blueprint can be built from the analysis); and the
\* accumulator is what the completion yields when it is not asked for that
\* category at all.
C16_SilentGap ==
    PipelineRan =>
        \A n \in 1..Len(BackfillOrder) :
            LET c == BackfillOrder[n]
                others == SelectSeq(BackfillOrder, LAMBDA x : x # c)
            IN  (~HasCategory(PreferredTools, c) /\ Candidates(c) = {}) =>
                    /\ AddedOf(c) = {}
                    /\ pc = "Done" <=> ~BlueprintThrows(analysis)
                    /\ pc = "Done" =>
                         /\ response.status = 200
                         /\ c \notin CategoriesOf(response.recommendedStack)
                    /\ selectedTools = BackfillAll(PreferredTools, scoredTools, others)

\* C16 witness: a 200 whose catalog has no Database tool at all while two
\* other categories were backfilled.
C16_Witness ==
    /\ Answered200
    /\ "Database" \notin CategoriesOf(allTools)
    /\ Len(Added) = 2
    /\ "Language Model" \in CategoriesOf(response.recommendedStack)
    /\ CodeGeneration \in CategoriesOf(response.recommendedStack)

\* C17 as stated: a call of initializeServices that returned without
\* throwing leaves both the database handle and the LLM client set.
C17_ServicesSetAfterInit == calls.init = "ok" => (db /\ model)

C18_LazySingleton ==
    /\ [](/\ apps <= 1
          /\ (db \/ authDb \/ adminDb) => apps = 1
          /\ (authLoaded /\ apps = 1) => authDb
          /\ (adminLoaded /\ apps = 1) => adminDb
          /\ calls.init = "ok" => (apps = 1 /\ db))
    /\ [][apps' # apps => (apps = 0 /\ apps' = 1)]_vars

\* C18 witness: all three initialisers have run in one process.
C18_Witness ==
    /\ apps = 1 /\ authLoaded /\ adminLoaded /\ calls.init = "ok"
    /\ db /\ authDb /\ adminDb

\* C19: the adapter is defined exactly when the auth module's db is; and
\* while db is undefined after module load, a request to the auth route is
\* answered 500 without NextAuth being invoked and the signIn callback
\* returns false, so a sign-in is only ever allowed with db defined.
C19_AuthNeedsDb ==
    /\ adapter <=> authDb
    /\ (authLoaded /\ ~authDb) =>
           /\ ~adapter
           /\ authReply.kind = "request" => (authReply.status = 500 /\ ~authReply.nextAuth)
           /\ authReply.kind = "signIn" => ~authReply.allowed
    /\ (authReply.kind = "signIn" /\ authReply.allowed) => (authDb /\ adapter)
    /\ (authReply.kind = "request" /\ authReply.nextAuth) => authDb

\* C19 witness: Firebase initialisation failed at module load and a
\* request to the auth route was answered 500.
C19_Witness ==
    /\ authLoaded /\ ~authDb /\ ~envFirebase
    /\ authReply.kind = "request" /\ authReply.status = 500

\* Both invocations have answered 200.
BothAnswered200 ==
    /\ Answered200
    /\ parked.pc = "Done" /\ parked.response.status = 200

AloneInitThrows ==
    initializeServices(0, FALSE, FALSE, envFirebase, envGoogle).threw

\* The response invocation v gets as the only request of its process, with
\* the same environment, the same settlement of its session lookup, the
\* same body, the same analysis and the same catalog reads.
ResponseAlone(v) ==
    IF AloneInitThrows
    THEN ErrorResponse(500, "Server services failed to initialize.")
    ELSE IF v.calls.session = "threw" THEN NoResponse
    ELSE IF v.req.session = "absent" THEN ErrorResponse(401, "Unauthorized.")
    ELSE IF Falsy(v.req.body.projectIdea)
         THEN ErrorResponse(400, "projectIdea is required.")
    ELSE IF v.calls.rejected \/ BlueprintThrows(v.analysis)
         THEN ErrorResponse(500, "An internal server error occurred during blueprint generation.")
    ELSE [ status |-> 200,
           recommendedStack |->
               FinalStack(CompleteStack(
                   PreferredOf(v.allTools, v.req.body.preferredToolIds),
                   ScoreTools(RemainingOf(v.allTools, v.req.body.preferredToolIds)))),
           complexity |-> v.analysis.complexity, features |-> v.analysis.features,
           technologies |-> v.analysis.technologies ]

\* The lists of invocation v hold what v itself computed from its catalog
\* read and its preferences, or nothing when v never got that far.
OwnLists(v) ==
    IF v.pc \in { "Done", "Failed" } /\ v.calls.catalog = 1 /\ ~v.calls.rejected
    THEN /\ v.scoredTools = ScoreTools(RemainingOf(v.allTools, v.req.body.preferredToolIds))
         /\ v.selectedTools
              = CompleteStack(PreferredOf(v.allTools, v.req.body.preferredToolIds),
                              v.scoredTools)
    ELSE v.allTools = << >> /\ v.scoredTools = << >> /\ v.selectedTools = << >>

C15_OwnLists == OwnLists(Invocation) /\ OwnLists(parked)

\* A generate request has been sent.
Sent == wire.sent # NoBody

\* C21: in the wizard step stays within 1..3, projectIdea is not empty from
\* step 2 on, a skill level is chosen at step 3, and every generate request
\* carries a projectIdea that is not empty and the skillProfile 1, 2 or 3
\* of the level that was chosen.
C21_WizardGuards ==
    /\ creator.step \in 1..3
    /\ creator.step >= 2 => creator.projectIdea # ""
    /\ creator.step = 3 => creator.skillLevel \in SkillLevels
    /\ Sent => /\ wire.sent.projectIdea # ""
               /\ wire.sent.level \in SkillLevels
               /\ wire.sent.skillProfile \in 1..3
               /\ wire.sent.level = "Beginner" <=> wire.sent.skillProfile = 1
               /\ wire.sent.level = "Moderate" <=> wire.sent.skillProfile = 2
               /\ wire.sent.level = "Expert" <=> wire.sent.skillProfile = 3

\* C21 witness: a request was sent for a Moderate user with a preferred
\* tool, and the wizard, after an error, was walked back to step 2.
C21_Witness ==
    /\ Sent
    /\ wire.sent.skillProfile = 2
    /\ Len(wire.sent.preferredToolIds) = 1
    /\ creator.mounted /\ creator.step = 2 /\ creator.error # Null

\* C22: the create and the result view are shown only to an authenticated
\* session, the result view only with a stored blueprint result, and a
\* loading or unauthenticated session sees the loading text or the login
\* prompt whatever view is.
C22_ViewsNeedSession ==
    /\ renderContent(page) \in { "BlueprintCreator", "BlueprintResultDisplay" }
           => page.status = "authenticated"
    /\ creator.mounted => page.status = "authenticated"
    /\ renderContent(page) = "BlueprintResultDisplay" => page.newBlueprintResult # Null
    /\ page.status = "loading" => renderContent(page) = "Loading session..."
    /\ page.status = "unauthenticated" => renderContent(page) = "LoginPrompt"

\* C22 witness: the session has ended while view is result with a stored
\* blueprint, and the page shows the login prompt.
C22_Witness ==
    /\ page.status = "unauthenticated"
    /\ page.view = "result" /\ page.newBlueprintResult # Null
    /\ renderContent(page) = "LoginPrompt"

====
